---------------------------- MODULE Spec2Model ----------------------------
(***************************************************************************)
(* Model of src/src/main.rs: the Isbn identifier generator                 *)
(* (generate_publication_code, calc_check_digit_10, calc_check_digit_13,   *)
(* Isbn::new, create_isbn_10, create_isbn_13) and the lookup loop of main. *)
(*                                                                         *)
(* A String is a sequence of character codes (ASCII), so that the code's   *)
(* `c as usize - 48` is computed, not assumed.  usize arithmetic is        *)
(* modelled with the two behaviours a cargo build can have: overflow       *)
(* checks on (a panic, "debug") and off (wrap-around, "release").          *)
(***************************************************************************)
EXTENDS Integers, Sequences, FiniteSets

VARIABLES
    build,              \* "debug" (overflow checks) or "release" (wrapping)
    pc,                 \* control position of the running scenario
    head_code,          \* argument / Isbn field
    country_code,       \* argument / Isbn field
    publisher_code,     \* argument / Isbn field
    publication_code,   \* argument, or the value generate_publication_code returned
    check_digit_10,     \* what calc_check_digit_10 returned
    check_digit_13,     \* what calc_check_digit_13 returned
    isbn_10,            \* what create_isbn_10 returned
    isbn_13,            \* what create_isbn_13 returned
    rng,                \* the last value rng.gen_range returned in generate_publication_code
    counter,            \* main: let mut counter
    total_results,      \* main: the parsed totalResults of the last response
    request,            \* main: the isbn in the GET of this iteration
    lookups,            \* history: number of GETs sent
    constructed,        \* history: number of Isbn::new calls that returned
    slept_ms,           \* history: total time spent in tokio::time::sleep
    link,               \* stdout: the isbn printed in the booklog link, or NoString
    not_found,          \* stdout: the isbn of the last "... not found" line, or NoString
    failure_printed     \* stdout: "cannot find any books in 10 times" was printed

vars == <<build, pc, head_code, country_code, publisher_code, publication_code,
          check_digit_10, check_digit_13, isbn_10, isbn_13, rng, counter,
          total_results, request, lookups, constructed, slept_ms, link,
          not_found, failure_printed>>

-----------------------------------------------------------------------------
(* Bounds of the model *)

\* usize is 64 bits wide; TLC's integers are 32 bits, so the model's usize
\* wraps at 2^UsizeBits.  Every value the code computes without overflow
\* (at most 10^7) fits.
UsizeBits == 24

\* Every draw below MaxDenseDraw is tried, beside the draws at which the
\* decimal length changes and the largest one.
MaxDenseDraw == 120

\* In the calc_check_digit scenarios, the number of adjacent characters of a
\* base input that range over every character of CharPool.
WindowLen == 2

\* The number of distinct positive totalResults values a response carries.
MaxTotalResults == 2

-----------------------------------------------------------------------------
(* Values *)

\* What a usize-valued expression yields when it does not yield a number:
\* panic!() (overflow check, unwrap on Err).
Panic == 0 - 1

\* What a String-valued call yields when it does not return: a panic
\* (overflow check, unwrap, capacity overflow) or an abort on allocation
\* failure.
PanicString == <<Panic>>

\* No String (a field not yet set, a line not printed).
NoString == <<0 - 2>>

UsizeMod == 2 ^ UsizeBits

\* isize::MAX, the largest capacity a String can have.
IsizeMax == 2 ^ (UsizeBits - 1) - 1

\* String::from of a string of decimal digits, each given by its value.
Digits(ds) == [i \in DOMAIN ds |-> 48 + ds[i]]

Builds == {"debug", "release"}

\* usize arithmetic: the mathematical result x when it is representable;
\* otherwise a panic with overflow checks and the wrapped value without.
Usize(b, x) ==
    IF x \in 0 .. (UsizeMod - 1) THEN x
    ELSE IF b = "debug" THEN Panic
    ELSE x % UsizeMod

USub(b, x, y) == IF x = Panic \/ y = Panic THEN Panic ELSE Usize(b, x - y)

UAdd(b, x, y) == IF x = Panic \/ y = Panic THEN Panic ELSE Usize(b, x + y)

UMul(b, x, y) == IF x = Panic \/ y = Panic THEN Panic ELSE Usize(b, x * y)

\* usize::to_string: the decimal digits, most significant first, no padding.
RECURSIVE to_string(_)
to_string(n) ==
    IF n < 10 THEN <<48 + n>> ELSE Append(to_string(n \div 10), 48 + (n % 10))

\* str::parse::<usize>().unwrap(): Err on an empty string, a character that
\* is no digit, or a value usize cannot hold.
RECURSIVE ParseFrom(_, _, _)
ParseFrom(s, i, acc) ==
    IF i > Len(s) THEN acc
    ELSE IF s[i] \notin 48 .. 57 THEN Panic
    ELSE IF acc * 10 + (s[i] - 48) >= UsizeMod THEN Panic
    ELSE ParseFrom(s, i + 1, acc * 10 + (s[i] - 48))

ParseUnwrap(s) == IF Len(s) = 0 THEN Panic ELSE ParseFrom(s, 1, 0)

\* String::push_str("0") repeated n times on s; the String cannot grow past
\* isize::MAX bytes.
PushZeros(s, n) ==
    IF n = Panic THEN PanicString
    ELSE IF Len(s) + n > IsizeMax THEN PanicString
    ELSE IF n = 0 THEN s
    ELSE s \o [i \in 1 .. n |-> 48]

\* String::from("0") + &s repeated n times.
PrependZeros(s, n) ==
    IF n = Panic THEN PanicString
    ELSE IF Len(s) + n > IsizeMax THEN PanicString
    ELSE IF n = 0 THEN s
    ELSE [i \in 1 .. n |-> 48] \o s

-----------------------------------------------------------------------------
(* impl Isbn *)

\* generate_publication_code, lines 29-31: the number of digits of the
\* publication code.
publication_code_digit(b, country, publisher) ==
    USub(b, 10, UAdd(b, UAdd(b, Len(country), Len(publisher)), 1))

\* generate_publication_code, lines 34-37: "1" followed by one "0" per digit.
max_publication_code_string(b, country, publisher) ==
    PushZeros(<<49>>, publication_code_digit(b, country, publisher))

\* generate_publication_code, line 38: the exclusive upper end of the draw.
max_publication_code(b, country, publisher) ==
    LET s == max_publication_code_string(b, country, publisher)
    IN  IF s = PanicString THEN Panic ELSE ParseUnwrap(s)

\* digit_diff with a difference that stops at 0 instead of overflowing.
digit_diff_saturating(b, max_string, code) ==
    IF Len(max_string) - 1 - Len(code) < 0 THEN 0
    ELSE Len(max_string) - 1 - Len(code)

\* generate_publication_code, line 42.
digit_diff(b, max_string, code) ==
    USub(b, USub(b, Len(max_string), 1), Len(code))

\* padded_publication_code without the padding of lines 47-51.
unpadded_publication_code(b, country, publisher, n) ==
    LET max_string == max_publication_code_string(b, country, publisher)
    IN  IF max_string = PanicString \/ n = Panic THEN PanicString
        ELSE to_string(n)

\* generate_publication_code, lines 41-52, for the draw n that
\* rng.gen_range(0..max_publication_code) returned.
padded_publication_code(b, country, publisher, n) ==
    LET max_string == max_publication_code_string(b, country, publisher)
        code       == to_string(n)
        diff       == digit_diff(b, max_string, code)
    IN  IF max_string = PanicString \/ n = Panic THEN PanicString
        ELSE IF diff = 0 THEN code
        ELSE PrependZeros(code, diff)

\* One step of the loops of calc_check_digit_13 (lines 60-64 and 68-72):
\* the characters at the 0-based indices i, i + 2, ... each add
\* (c as usize - 48) * weight to total.
RECURSIVE step_by_2(_, _, _, _, _)
step_by_2(b, s, i, weight, total) ==
    IF i >= Len(s) \/ total = Panic THEN total
    ELSE step_by_2(b, s, i + 2, weight,
                   UAdd(b, total, UMul(b, USub(b, s[i + 1], 48), weight)))

\* (10 - check_digit_surplus).to_string() and its ISBN-10 twin.
DigitString(x) == IF x = Panic THEN PanicString ELSE to_string(x)

\* calc_check_digit_13 with the even places not multiplied by 3.
calc_check_digit_13_unweighted(b, head, country, publisher, publication) ==
    LET s           == head \o country \o publisher \o publication
        odd_total   == step_by_2(b, s, 0, 1, 0)
        even_total  == IF odd_total = Panic THEN Panic
                       ELSE step_by_2(b, s, 1, 1, 0)
        total       == UAdd(b, odd_total, even_total)
    IN  IF total = Panic THEN PanicString
        ELSE IF total % 10 = 0 THEN <<48>>
        ELSE DigitString(USub(b, 10, total % 10))

\* calc_check_digit_13 without the branch for remainder 0.
calc_check_digit_13_no_zero(b, head, country, publisher, publication) ==
    LET s           == head \o country \o publisher \o publication
        odd_total   == step_by_2(b, s, 0, 1, 0)
        even_total  == IF odd_total = Panic THEN Panic
                       ELSE step_by_2(b, s, 1, 3, 0)
        total       == UAdd(b, odd_total, even_total)
    IN  IF total = Panic THEN PanicString
        ELSE DigitString(USub(b, 10, total % 10))

calc_check_digit_13(b, head, country, publisher, publication) ==
    LET s           == head \o country \o publisher \o publication
        odd_total   == step_by_2(b, s, 0, 1, 0)
        even_total  == IF odd_total = Panic THEN Panic
                       ELSE step_by_2(b, s, 1, 3, 0)
        total       == UAdd(b, odd_total, even_total)
    IN  IF total = Panic THEN PanicString
        ELSE IF total % 10 = 0 THEN <<48>>
        ELSE DigitString(USub(b, 10, total % 10))

\* weighted_total with the weights 9 down to 1 instead of 10 down to 2.
RECURSIVE weighted_total_from_9(_, _, _, _)
weighted_total_from_9(b, s, i, total) ==
    IF i >= Len(s) \/ total = Panic THEN total
    ELSE weighted_total_from_9(b, s, i + 1,
                               UAdd(b, total,
                                    UMul(b, USub(b, s[i + 1], 48), USub(b, 9, i))))

\* The loop of calc_check_digit_10 (lines 88-92), from the 0-based index i.
RECURSIVE weighted_total(_, _, _, _)
weighted_total(b, s, i, total) ==
    IF i >= Len(s) \/ total = Panic THEN total
    ELSE weighted_total(b, s, i + 1,
                        UAdd(b, total,
                             UMul(b, USub(b, s[i + 1], 48), USub(b, 10, i))))

\* calc_check_digit_10 without the branch for remainder 1.
calc_check_digit_10_no_x(b, country, publisher, publication) ==
    LET s     == country \o publisher \o publication
        total == weighted_total(b, s, 0, 0)
    IN  IF total = Panic THEN PanicString
        ELSE IF total % 11 = 0 THEN <<48>>
        ELSE DigitString(USub(b, 11, total % 11))

calc_check_digit_10(b, country, publisher, publication) ==
    LET s     == country \o publisher \o publication
        total == weighted_total(b, s, 0, 0)
    IN  IF total = Panic THEN PanicString
        ELSE IF total % 11 = 0 THEN <<48>>
        ELSE IF total % 11 = 1 THEN <<88>>
        ELSE DigitString(USub(b, 11, total % 11))

create_isbn_10(country, publisher, publication, cd10) ==
    country \o publisher \o publication \o cd10

create_isbn_13(head, country, publisher, publication, cd13) ==
    head \o country \o publisher \o publication \o cd13

\* Isbn::new, lines 19-22, for the draw n: the fields of the Isbn it
\* returns, or PanicString in every field when one of its three calls does
\* not return.
new(b, head, country, publisher, n) ==
    LET publication == padded_publication_code(b, country, publisher, n)
        cd10 == IF publication = PanicString THEN PanicString
                ELSE calc_check_digit_10(b, country, publisher, publication)
        cd13 == IF cd10 = PanicString THEN PanicString
                ELSE calc_check_digit_13(b, head, country, publisher, publication)
    IN  IF cd13 = PanicString
        THEN [publication_code |-> PanicString, check_digit_10 |-> PanicString,
              check_digit_13 |-> PanicString]
        ELSE [publication_code |-> publication, check_digit_10 |-> cd10,
              check_digit_13 |-> cd13]

-----------------------------------------------------------------------------
(* Inputs *)

\* The values rng.gen_range(0..max) is made to return: every value below
\* MaxDenseDraw, the values around each change of decimal length, and the
\* largest one.
DrawSet(max) ==
    IF max = Panic THEN {Panic}
    ELSE {n \in (0 .. (MaxDenseDraw - 1))
               \cup {10 ^ k - 1 : k \in 1 .. 7} \cup {10 ^ k : k \in 1 .. 7}
               \cup {max - 1} : n < max}

\* Group identifiers of 1 to 5 digits (Japan, Brazil, Taiwan, Maldives, Qatar).
CountryCodes ==
    {Digits(<<4>>), Digits(<<8, 5>>), Digits(<<9, 5, 7>>),
     Digits(<<9, 9, 9, 1>>), Digits(<<9, 9, 9, 2, 1>>)}

\* Publisher codes of 1 to 9 digits; with a country code they use up 2 to
\* 14 of the 9 digits an ISBN-10 has before its check digit.
PublisherCodes ==
    {Digits(<<1>>), Digits(<<1, 0>>), Digits(<<0, 0, 7>>), Digits(<<7, 9, 8, 1>>),
     Digits(<<8, 6, 0, 1, 1>>), Digits(<<9, 0, 0, 0, 0, 0>>),
     Digits(<<9, 9, 9, 9, 9, 9, 9>>), Digits(<<1, 2, 3, 4, 5, 6, 7, 8>>),
     Digits(<<1, 2, 3, 4, 5, 6, 7, 8, 9>>)}

\* The characters an argument of calc_check_digit_10/13 is made of: the ten
\* digits, and '-', 'A' and 'X'.
CharPool == (48 .. 57) \cup {45, 65, 88}

\* The arguments of the two unit tests: 4-10-109205 and 978-4-7981-7154.
BaseInputs ==
    {<<Digits(<<9, 7, 8>>), Digits(<<4>>), Digits(<<1, 0>>),
       Digits(<<1, 0, 9, 2, 0, 5>>)>>,
     <<Digits(<<9, 7, 8>>), Digits(<<4>>), Digits(<<7, 9, 8, 1>>),
       Digits(<<7, 1, 5, 4>>)>>}

\* s with the characters w written over those at start, start + 1, ...
Overwrite(s, start, w) ==
    [i \in 1 .. Len(s) |->
        IF i \in start .. (start + Len(w) - 1) THEN w[i - start + 1] ELSE s[i]]

\* A base input with WindowLen adjacent characters replaced, cut into codes
\* of the base's lengths.
CalcInputs ==
    {LET s == Overwrite(base[1] \o base[2] \o base[3] \o base[4], start, w)
         a == Len(base[1])
         c == a + Len(base[2])
         e == c + Len(base[3])
     IN  <<SubSeq(s, 1, a), SubSeq(s, a + 1, c), SubSeq(s, c + 1, e),
           SubSeq(s, e + 1, Len(s))>> :
     base \in BaseInputs,
     start \in 1 .. (12 - WindowLen + 1),
     w \in [1 .. WindowLen -> CharPool]}

\* The codes of csv/isbn978.csv: publisher codes under group 4, of 2 to 7
\* digits.
PublisherTable ==
    {Digits(<<1, 0>>), Digits(<<7, 9, 8, 1>>), Digits(<<8, 6, 0, 1, 1>>),
     Digits(<<9, 9, 9, 9, 9, 9, 9>>)}

-----------------------------------------------------------------------------
(* The main loop's variables when main is not running *)

MainIdle ==
    /\ counter = 0
    /\ total_results = 0
    /\ request = NoString
    /\ lookups = 0
    /\ constructed = 0
    /\ slept_ms = 0
    /\ link = NoString
    /\ not_found = 0
    /\ failure_printed = FALSE

mainVars == <<counter, total_results, request, lookups, constructed, slept_ms,
              link, not_found, failure_printed>>

isbnVars == <<head_code, country_code, publisher_code, publication_code,
              check_digit_10, check_digit_13>>

-----------------------------------------------------------------------------
(* Scenario 1: calc_check_digit_10 and calc_check_digit_13 called directly, *)
(* as tests::test_calc_check_digit_10/13 call them                          *)

InitCalc ==
    /\ build \in Builds
    /\ pc = "calc"
    /\ \E in \in CalcInputs :
          /\ head_code = in[1]
          /\ country_code = in[2]
          /\ publisher_code = in[3]
          /\ publication_code = in[4]
    /\ check_digit_10 = NoString
    /\ check_digit_13 = NoString
    /\ isbn_10 = NoString
    /\ isbn_13 = NoString
    /\ rng = 0
    /\ MainIdle

CallCalcCheckDigit10 ==
    /\ pc = "calc"
    /\ check_digit_10 = NoString
    /\ check_digit_10' =
          calc_check_digit_10(build, country_code, publisher_code, publication_code)
    /\ UNCHANGED <<build, pc, head_code, country_code, publisher_code,
                   publication_code, check_digit_13, isbn_10, isbn_13, rng,
                   mainVars>>

CallCalcCheckDigit13 ==
    /\ pc = "calc"
    /\ check_digit_13 = NoString
    /\ check_digit_13' =
          calc_check_digit_13(build, head_code, country_code, publisher_code,
                              publication_code)
    /\ UNCHANGED <<build, pc, head_code, country_code, publisher_code,
                   publication_code, check_digit_10, isbn_10, isbn_13, rng,
                   mainVars>>

NextCalc == CallCalcCheckDigit10 \/ CallCalcCheckDigit13

SpecCalc == InitCalc /\ [][NextCalc]_vars

-----------------------------------------------------------------------------
(* Scenario 2: generate_publication_code called directly, and Isbn::new     *)
(* followed by create_isbn_10 and create_isbn_13, as the unit tests do      *)

InitNew ==
    /\ build \in Builds
    /\ pc = "start"
    /\ head_code = Digits(<<9, 7, 8>>)
    /\ country_code \in CountryCodes
    /\ publisher_code \in PublisherCodes
    /\ publication_code = NoString
    /\ check_digit_10 = NoString
    /\ check_digit_13 = NoString
    /\ isbn_10 = NoString
    /\ isbn_13 = NoString
    /\ rng = 0
    /\ MainIdle

CallGeneratePublicationCode ==
    /\ pc = "start"
    /\ \E n \in DrawSet(max_publication_code(build, country_code, publisher_code)) :
          /\ rng' = IF n = Panic THEN rng ELSE n
          /\ publication_code' =
                padded_publication_code(build, country_code, publisher_code, n)
    /\ pc' = "generated"
    /\ UNCHANGED <<build, head_code, country_code, publisher_code, check_digit_10,
                   check_digit_13, isbn_10, isbn_13, mainVars>>

CallNew ==
    /\ pc = "start"
    /\ \E n \in DrawSet(max_publication_code(build, country_code, publisher_code)) :
          LET isbn == new(build, head_code, country_code, publisher_code, n)
          IN  /\ rng' = IF n = Panic THEN rng ELSE n
              /\ publication_code' = isbn.publication_code
              /\ check_digit_10' = isbn.check_digit_10
              /\ check_digit_13' = isbn.check_digit_13
              /\ pc' = IF isbn.publication_code = PanicString
                       THEN "panicked" ELSE "constructed"
    /\ UNCHANGED <<build, head_code, country_code, publisher_code, isbn_10,
                   isbn_13, mainVars>>

CallCreateIsbn10 ==
    /\ pc = "constructed"
    /\ isbn_10 = NoString
    /\ isbn_10' = create_isbn_10(country_code, publisher_code, publication_code,
                                 check_digit_10)
    /\ UNCHANGED <<build, pc, isbnVars, isbn_13, rng, mainVars>>

CallCreateIsbn13 ==
    /\ pc = "constructed"
    /\ isbn_13 = NoString
    /\ isbn_13' = create_isbn_13(head_code, country_code, publisher_code,
                                 publication_code, check_digit_13)
    /\ UNCHANGED <<build, pc, isbnVars, isbn_10, rng, mainVars>>

NextNew ==
    \/ CallGeneratePublicationCode
    \/ CallNew
    \/ CallCreateIsbn10
    \/ CallCreateIsbn13

SpecNew == InitNew /\ [][NextNew]_vars

-----------------------------------------------------------------------------
(* Scenario 3: main *)

InitMain ==
    /\ build \in Builds
    /\ pc = "loop"
    /\ head_code = NoString
    /\ country_code = NoString
    /\ publisher_code = NoString
    /\ publication_code = NoString
    /\ check_digit_10 = NoString
    /\ check_digit_13 = NoString
    /\ isbn_10 = NoString
    /\ isbn_13 = NoString
    /\ rng = 0
    /\ MainIdle

\* GiveUp without the break: the message is printed and main stays in the
\* loop.
GiveUpNoBreak ==
    /\ pc = "loop"
    /\ counter > 10
    /\ failure_printed' = TRUE
    /\ pc' = "loop"
    /\ UNCHANGED <<build, isbnVars, isbn_10, isbn_13, rng, counter, total_results,
                   request, lookups, constructed, slept_ms, link, not_found>>

\* Lines 155-158: the retry budget is used up.
GiveUp ==
    /\ pc = "loop"
    /\ counter > 10
    /\ failure_printed' = TRUE
    /\ pc' = "done"
    /\ UNCHANGED <<build, isbnVars, isbn_10, isbn_13, rng, counter, total_results,
                   request, lookups, constructed, slept_ms, link, not_found>>

\* Line 163, for each build: what Isbn::new(String::from("978"),
\* String::from("4"), code) yields for each code of the table and each draw.
MainIsbns ==
    [b \in Builds |->
        {[publisher_code |-> publisher, rng |-> n,
          fields |-> new(b, Digits(<<9, 7, 8>>), Digits(<<4>>), publisher, n)] :
         <<publisher, n>> \in
            UNION {{publisher} \X
                   DrawSet(max_publication_code(b, Digits(<<4>>), publisher)) :
                   publisher \in PublisherTable}}]

\* Lines 159-166, up to the GET being sent: a publisher of the table, a new
\* Isbn, and its ISBN-13 form in the request.
Attempt ==
    /\ pc = "loop"
    /\ ~(counter > 10)
    /\ \E isbn \in MainIsbns[build] :
          IF isbn.fields.publication_code = PanicString
          THEN /\ pc' = "panicked"
               /\ UNCHANGED <<isbnVars, isbn_13, rng, request, lookups,
                              constructed>>
          ELSE /\ head_code' = Digits(<<9, 7, 8>>)
               /\ country_code' = Digits(<<4>>)
               /\ publisher_code' = isbn.publisher_code
               /\ rng' = isbn.rng
               /\ publication_code' = isbn.fields.publication_code
               /\ check_digit_10' = isbn.fields.check_digit_10
               /\ check_digit_13' = isbn.fields.check_digit_13
               /\ constructed' = constructed + 1
               /\ isbn_13' = create_isbn_13(Digits(<<9, 7, 8>>), Digits(<<4>>),
                                            isbn.publisher_code,
                                            isbn.fields.publication_code,
                                            isbn.fields.check_digit_13)
               /\ request' = create_isbn_13(Digits(<<9, 7, 8>>), Digits(<<4>>),
                                            isbn.publisher_code,
                                            isbn.fields.publication_code,
                                            isbn.fields.check_digit_13)
               /\ lookups' = lookups + 1
               /\ pc' = "await"
    /\ UNCHANGED <<build, isbn_10, counter, total_results, slept_ms, link,
                   not_found, failure_printed>>

\* Lines 166-176: the response arrives and its totalResults parses.
Response ==
    /\ pc = "await"
    /\ \E t \in 0 .. MaxTotalResults : total_results' = t
    /\ pc' = "parsed"
    /\ UNCHANGED <<build, isbnVars, isbn_10, isbn_13, rng, counter, request,
                   lookups, constructed, slept_ms, link, not_found,
                   failure_printed>>

\* Lines 166-176: the request fails, or the response is no XML, has no
\* channel or totalResults, or its totalResults is no number: an unwrap or
\* expect panics.
BadResponse ==
    /\ pc = "await"
    /\ pc' = "panicked"
    /\ UNCHANGED <<build, isbnVars, isbn_10, isbn_13, rng, mainVars>>

\* Found without the break: the loop goes on after the link is printed.
FoundNoBreak ==
    /\ pc = "parsed"
    /\ total_results > 0
    /\ isbn_10' = create_isbn_10(country_code, publisher_code, publication_code,
                                 check_digit_10)
    /\ link' = isbn_10'
    /\ pc' = "sleep"
    /\ UNCHANGED <<build, isbnVars, isbn_13, rng, counter, total_results, request,
                   lookups, constructed, slept_ms, not_found, failure_printed>>

\* Lines 177-181: the link with the ISBN-10 form is printed; break.
Found ==
    /\ pc = "parsed"
    /\ total_results > 0
    /\ isbn_10' = create_isbn_10(country_code, publisher_code, publication_code,
                                 check_digit_10)
    /\ link' = isbn_10'
    /\ pc' = "done"
    /\ UNCHANGED <<build, isbnVars, isbn_13, rng, counter, total_results, request,
                   lookups, constructed, slept_ms, not_found, failure_printed>>

\* Lines 182-183: "... not found" is printed and the sleep starts.
NotFound ==
    /\ pc = "parsed"
    /\ ~(total_results > 0)
    /\ not_found' = not_found + 1
    /\ pc' = "sleep"
    /\ UNCHANGED <<build, isbnVars, isbn_10, isbn_13, rng, counter, total_results,
                   request, lookups, constructed, slept_ms, link, failure_printed>>

\* Lines 183-185: the sleep of 1000 ms is over; counter += 1; the
\* iteration ends and its isbn and rng are dropped.
Wake ==
    /\ pc = "sleep"
    /\ slept_ms' = slept_ms + 1000
    /\ counter' = counter + 1
    /\ head_code' = NoString
    /\ country_code' = NoString
    /\ publisher_code' = NoString
    /\ publication_code' = NoString
    /\ check_digit_10' = NoString
    /\ check_digit_13' = NoString
    /\ isbn_13' = NoString
    /\ request' = NoString
    /\ rng' = 0
    /\ pc' = "loop"
    /\ UNCHANGED <<build, isbn_10, total_results, lookups, constructed, link,
                   not_found, failure_printed>>

NextMain ==
    \/ GiveUp
    \/ Attempt
    \/ Response
    \/ BadResponse
    \/ Found
    \/ NotFound
    \/ Wake

SpecMain == InitMain /\ [][NextMain]_vars

\* main when every response is well formed.
NextMainWellFormed ==
    \/ GiveUp
    \/ Attempt
    \/ Response
    \/ Found
    \/ NotFound
    \/ Wake

\* Nothing but an await suspends main, and the runtime resumes it when the
\* response or the timer is ready: a step that can be taken is taken.
LiveMain ==
    InitMain /\ [][NextMainWellFormed]_vars /\ WF_vars(NextMainWellFormed)

-----------------------------------------------------------------------------
(* What the properties are stated with *)

IsDigitString(s) == \A i \in 1 .. Len(s) : s[i] \in 48 .. 57

\* The sum of f over the finite set S of its domain.
RECURSIVE SumOver(_, _)
SumOver(f, S) ==
    IF S = {} THEN 0
    ELSE LET x == CHOOSE y \in S : TRUE IN f[x] + SumOver(f, S \ {x})

\* The value of a character of an ISBN: a digit's value, and 10 for 'X'.
CharValue(c) == IF c = 88 THEN 10 ELSE c - 48

\* The number a string of decimal digits denotes.
DecimalValue(s) ==
    SumOver([i \in 1 .. Len(s) |-> (s[i] - 48) * 10 ^ (Len(s) - i)], 1 .. Len(s))

\* The ISBN-10 check character of the 9 digits d, as the standard defines it.
Isbn10CheckCharacter(d) ==
    LET total == SumOver([i \in 0 .. 8 |-> (d[i + 1] - 48) * (10 - i)], 0 .. 8)
        r     == total % 11
    IN  IF r = 0 THEN <<48>> ELSE IF r = 1 THEN <<88>> ELSE <<48 + (11 - r)>>

\* The EAN-13 check digit of the 12 digits d, as the standard defines it.
Ean13CheckDigit(d) ==
    LET ones   == SumOver([i \in {0, 2, 4, 6, 8, 10} |-> d[i + 1] - 48],
                          {0, 2, 4, 6, 8, 10})
        threes == SumOver([i \in {1, 3, 5, 7, 9, 11} |-> d[i + 1] - 48],
                          {1, 3, 5, 7, 9, 11})
        r      == (ones + 3 * threes) % 10
    IN  IF r = 0 THEN <<48>> ELSE <<48 + (10 - r)>>

\* The 9 characters calc_check_digit_10 is given, and the 12 of
\* calc_check_digit_13.
Body9 == country_code \o publisher_code \o publication_code

Body12 == head_code \o Body9

\* len(country_code) + len(publisher_code)
CombinedLen == Len(country_code) + Len(publisher_code)

-----------------------------------------------------------------------------
(* Properties *)

\* C1: for every 9-digit input, calc_check_digit_10 returns the ISBN-10
\* check character: '0' for remainder 0, 'X' for remainder 1, the digit
\* 11 - remainder otherwise, always one character of '0'-'9' or 'X'; for
\* ("4", "10", "109205") it returns "2".
C1_CheckDigit10 ==
    (pc = "calc" /\ check_digit_10 # NoString /\ IsDigitString(Body9)) =>
        /\ check_digit_10 = Isbn10CheckCharacter(Body9)
        /\ Len(check_digit_10) = 1
        /\ check_digit_10[1] \in (48 .. 57) \cup {88}
        /\ (Body9 = Digits(<<4, 1, 0, 1, 0, 9, 2, 0, 5>>)
               => check_digit_10 = Digits(<<2>>))

\* C1's case: the unit test's call has returned "2".
C1_Witness ==
    /\ pc = "calc"
    /\ country_code = Digits(<<4>>)
    /\ publisher_code = Digits(<<1, 0>>)
    /\ publication_code = Digits(<<1, 0, 9, 2, 0, 5>>)
    /\ check_digit_10 = Digits(<<2>>)

\* C2: for every 12-digit input, calc_check_digit_13 returns the EAN-13
\* check digit (weights 1 and 3 alternating from the left), always one
\* character of '0'-'9'; for ("978", "4", "7981", "7154") it returns "8".
C2_CheckDigit13 ==
    (pc = "calc" /\ check_digit_13 # NoString /\ IsDigitString(Body12)) =>
        /\ check_digit_13 = Ean13CheckDigit(Body12)
        /\ Len(check_digit_13) = 1
        /\ check_digit_13[1] \in 48 .. 57
        /\ (Body12 = Digits(<<9, 7, 8, 4, 7, 9, 8, 1, 7, 1, 5, 4>>)
               => check_digit_13 = Digits(<<8>>))

\* C2's case: the unit test's call has returned "8".
C2_Witness ==
    /\ pc = "calc"
    /\ head_code = Digits(<<9, 7, 8>>)
    /\ country_code = Digits(<<4>>)
    /\ publisher_code = Digits(<<7, 9, 8, 1>>)
    /\ publication_code = Digits(<<7, 1, 5, 4>>)
    /\ check_digit_13 = Digits(<<8>>)

\* C3: for codes of combined length at most 8 and every draw, zero
\* included, generate_publication_code returns the draw as decimal digits
\* left-padded with '0' to exactly 10 - len(country) - len(publisher) - 1
\* characters; width 1 (combined length 8) completes without error.
C3_PublicationCodeWidth ==
    (pc \in {"generated", "constructed", "panicked"} /\ CombinedLen <= 8) =>
        /\ publication_code # PanicString
        /\ Len(publication_code) = 10 - Len(country_code) - Len(publisher_code) - 1
        /\ IsDigitString(publication_code)
        /\ DecimalValue(publication_code) = rng

\* C3's case: width 1 and the draw 0.
C3_Witness ==
    /\ pc = "generated"
    /\ CombinedLen = 8
    /\ rng = 0
    /\ publication_code = Digits(<<0>>)

\* C4: for head "978", digit codes of combined length at most 8 and every
\* draw, Isbn::new returns, create_isbn_13 returns 13 characters and
\* create_isbn_10 returns 10 characters: each check digit is one character.
C4_AssembledLengths ==
    (pc \in {"constructed", "panicked"} /\ CombinedLen <= 8) =>
        /\ pc = "constructed"
        /\ Len(check_digit_10) = 1
        /\ Len(check_digit_13) = 1
        /\ (isbn_10 # NoString => Len(isbn_10) = 10)
        /\ (isbn_13 # NoString => Len(isbn_13) = 13)

\* C4's case: both forms assembled, the ISBN-10 check character being 'X'.
C4_Witness ==
    /\ pc = "constructed"
    /\ check_digit_10 = <<88>>
    /\ isbn_10 # NoString
    /\ isbn_13 # NoString

\* C5: when a character of its input is outside '0'-'9', calc_check_digit_10
\* (calc_check_digit_13) fails and returns no check digit.
C5_NonDigitRejected ==
    pc = "calc" =>
        /\ (check_digit_10 # NoString /\ ~IsDigitString(Body9))
              => check_digit_10 = PanicString
        /\ (check_digit_13 # NoString /\ ~IsDigitString(Body12))
              => check_digit_13 = PanicString

\* C6: for codes of combined length 9 or more, generate_publication_code
\* and Isbn::new fail for every draw: no publication code is returned and no
\* Isbn is constructed.
C6_InvalidWidthFails ==
    (pc \in {"generated", "constructed", "panicked"} /\ CombinedLen >= 9) =>
        /\ publication_code = PanicString
        /\ pc # "constructed"
        /\ isbn_10 = NoString
        /\ isbn_13 = NoString

\* C6's case: Isbn::new has failed on codes of combined length exactly 9.
C6_Witness ==
    /\ pc = "panicked"
    /\ CombinedLen = 9
    /\ publication_code = PanicString

\* C10: every Isbn built from head "978" and digit codes of combined length
\* at most 8 is checksum-valid in both forms: the ISBN-10's characters
\* weighted 10 down to 1 ('X' counting 10) sum to 0 mod 11, and the
\* ISBN-13's digits weighted 1, 3, 1, 3, ... sum to 0 mod 10.
C10_ChecksumValid ==
    (pc = "constructed" /\ CombinedLen <= 8) =>
        /\ isbn_10 # NoString =>
              /\ Len(isbn_10) = 10
              /\ SumOver([i \in 0 .. 9 |-> CharValue(isbn_10[i + 1]) * (10 - i)],
                         0 .. 9) % 11 = 0
        /\ isbn_13 # NoString =>
              /\ Len(isbn_13) = 13
              /\ SumOver([i \in 0 .. 12 |->
                             CharValue(isbn_13[i + 1]) * (IF i % 2 = 0 THEN 1 ELSE 3)],
                         0 .. 12) % 10 = 0

\* C10's case: both forms assembled from a publication code that needed
\* padding, the ISBN-13 check digit being '0'.
C10_Witness ==
    /\ pc = "constructed"
    /\ isbn_10 # NoString
    /\ isbn_13 # NoString
    /\ isbn_13[13] = 48
    /\ publication_code[1] = 48

\* C7: as soon as a lookup returns total_results > 0, main prints the link
\* with the ISBN-10 form of the Isbn whose ISBN-13 form that lookup carried
\* and stops: no Isbn is built, no lookup sent and no failure message
\* printed after it. After total_results = 0 it sleeps, and a new Isbn is
\* built only when every earlier attempt was followed by its 1000 ms sleep.
C7_FoundStops ==
    /\ [](link # NoString =>
            /\ pc = "done"
            /\ total_results > 0
            /\ ~failure_printed
            /\ request = head_code \o country_code \o publisher_code
                            \o publication_code \o check_digit_13
            /\ link = country_code \o publisher_code \o publication_code
                            \o check_digit_10)
    /\ [](lookups = constructed)
    /\ [][/\ link = NoString
          /\ (pc = "parsed" /\ total_results > 0) =>
                (link' # NoString /\ pc' = "done")
          /\ (pc = "parsed" /\ total_results = 0) =>
                (link' = NoString /\ pc' = "sleep" /\ constructed' = constructed)
          /\ (constructed' # constructed) =>
                /\ constructed' = constructed + 1
                /\ slept_ms = 1000 * constructed
                /\ pc' = "await"
                /\ request' # NoString]_vars

\* C7's case: the link was printed for the second Isbn, after one attempt
\* that found nothing.
C7_Witness ==
    /\ pc = "done"
    /\ link # NoString
    /\ lookups = 2
    /\ slept_ms = 1000

\* C8: main sends at most 10 lookups in a run, and prints the failure
\* message only after 10 lookups have all returned zero results.
C8_TenLookups ==
    /\ lookups <= 10
    /\ failure_printed => (lookups = 10 /\ not_found = 10)

\* C9: when every response is well formed, main terminates, and at
\* termination it has printed either the link or the failure message, not
\* both and not neither.
C9_Terminates ==
    /\ <>(pc = "done")
    /\ [](pc = "done" => ((link # NoString) <=> ~failure_printed))

\* C9's case: main has terminated with the failure message.
C9_Witness ==
    /\ pc = "done"
    /\ failure_printed
    /\ link = NoString

=============================================================================
